---- MODULE Spec2Model ----
(***************************************************************************)
(* The meeting orchestration of the AI meeting room: the App component     *)
(* (handleStartMeeting, handleStopMeeting, handleResetMeeting,             *)
(* handleSendMessage, runMeetingStep, the tick-scheduling effect, the      *)
(* credential handlers) and the generation service (ApiKeyManager,         *)
(* generateContentWithRetry, generateAgenda / generateTurn /               *)
(* generateSummary).                                                       *)
(*                                                                         *)
(* Objects held in React refs (AbortController, orchestrator, meeting      *)
(* state) live in small heaps indexed by an object id, because a           *)
(* runMeetingStep call that is suspended on a backend call keeps the       *)
(* objects it captured while handleStartMeeting installs new ones.         *)
(* Time is counted in milliseconds.                                        *)
(***************************************************************************)
EXTENDS Integers, Sequences, FiniteSets, TLC

\* ---------------------------------------------------------------- bounds
MaxPersonas == 2        \* personas.length ranges over 1..MaxPersonas
MaxAgenda == 2          \* lines kept by generateAgenda: 0..MaxAgenda
MaxTasks == 2           \* suspended runMeetingStep calls at one time
MaxUserMsgs == 2        \* handleSendMessage calls accepted per transcript
MaxMeetings == 3        \* handleStartMeeting calls that start a meeting
RaceMeetings == 2       \* the same, where every handler is free to run
NumTexts == 2           \* distinct interjection texts
NumKeys == 2            \* API keys stored in apiKeys
MaxKeys == 3            \* key ids are 1..MaxKeys

\* ------------------------------------------------------ program constants
TurnDelay == 5000       \* setTimeout(() => runMeetingStep(), 5000)
Cooldown == 60000       \* setTimeout(..., 60000) of the rate-limit reset

OrchestratorId == 0     \* personaId 'orchestrator'
UserId == -1            \* personaId 'user'
NoTimer == -1           \* no tick timer pending

VARIABLES
    personas,           \* personas.length (the list itself is 1..personas)
    meetingTopic,       \* the topic, a sequence of characters
    response,           \* response.text of the agenda call, a sequence of
                        \* characters
    apiKeys,            \* Seq of [id, status]; value = id (handleAddApiKey)
    chatHistory,        \* Seq of ChatMessage
    isMeetingRunning,
    isWaitingForAI,
    error,              \* "none" is null
    abortControllerRef, \* object id, 0 is null
    orchestratorRef,    \* object id, 0 is null
    meetingStateRef,    \* object id, 0 is the initial state object
    aborted,            \* heap: AbortController.signal.aborted
    managers,           \* heap: ApiKeyManager [keys, currentIndex]
    states,             \* heap: meeting state objects
    tasks,              \* Seq of suspended runMeetingStep calls
    tickTimer,          \* ms left of the tick timer, NoTimer if none
    cooldowns,          \* set of [id, left]: pending rate-limit resets
    checks,             \* set of key ids with a checkApiKey call in flight
    sinceLimited,       \* per key id: ms since it was last set rate-limited,
                        \* up to Cooldown
    meetings            \* number of meetings started so far

vars == <<personas, meetingTopic, response, apiKeys, chatHistory, isMeetingRunning, isWaitingForAI,
          error, abortControllerRef, orchestratorRef, meetingStateRef,
          aborted, managers, states, tasks, tickTimer, cooldowns, checks,
          sinceLimited, meetings>>

KeyIds == 1..MaxKeys
ObjIds == 1..(2 * MaxTasks + 1)

\* ------------------------------------------------------------ ChatMessage
Text(tag, arg) == [tag |-> tag, arg |-> arg]

createOrchestratorMessage(text) ==
    [personaId |-> OrchestratorId, text |-> text,
     isThinking |-> FALSE, isOrchestrator |-> TRUE, isUser |-> FALSE]

thinkingMessage(p) ==
    [personaId |-> p, text |-> Text("", 0),
     isThinking |-> TRUE, isOrchestrator |-> FALSE, isUser |-> FALSE]

finalMessage(p, responseText) ==
    [personaId |-> p, text |-> responseText,
     isThinking |-> FALSE, isOrchestrator |-> FALSE, isUser |-> FALSE]

userMessage(text) ==
    [personaId |-> UserId, text |-> Text("user", text),
     isThinking |-> FALSE, isOrchestrator |-> FALSE, isUser |-> TRUE]

Last(s) == s[Len(s)]
DropLast(s) == SubSeq(s, 1, Len(s) - 1)
NotThinking(m) == ~m.isThinking
FilterThinking(s) == SelectSeq(s, NotThinking)

\* formatHistory (geminiService.ts): the orchestrator's entries are left
\* out, every other entry becomes one line naming the speaker and the text.
NotOrchestrator(m) == ~m.isOrchestrator
formatHistory(history) ==
    LET kept == SelectSeq(history, NotOrchestrator)
    IN  [i \in 1..Len(kept) |->
            [speaker |-> kept[i].personaId, text |-> kept[i].text]]

\* ------------------------------------------------------------------ heaps
EmptyState ==
    [agenda |-> <<>>, currentAgendaIndex |-> 0, currentSpeakerIndex |-> -1,
     userIntervention |-> 0]
EmptyManager == [keys |-> <<>>, currentIndex |-> 0]

IsActive(k) == k.status = "active"
KeyIdsOf(s) == {s[i].id : i \in 1..Len(s)}
Ids(s) == [i \in 1..Len(s) |-> s[i].id]
SetStatusMutant(keys, id, status) ==
    [i \in 1..Len(keys) |-> [keys[i] EXCEPT !.status = status]]
SetStatus(keys, id, status) ==
    [i \in 1..Len(keys) |->
        IF keys[i].id = id THEN [keys[i] EXCEPT !.status = status] ELSE keys[i]]
StatusOf(keys, id) ==
    IF id \in KeyIdsOf(keys)
    THEN keys[CHOOSE i \in 1..Len(keys) : keys[i].id = id].status
    ELSE "deleted"

\* ApiKeyManager: constructor, getAvailableKeyCount, getNextKey
ApiKeyManager(keys) == [keys |-> Ids(SelectSeq(keys, IsActive)), currentIndex |-> 0]

getAvailableKeyCount(mgr) == Len(mgr.keys)

getNextKeyMutant(mgr) ==
    IF getAvailableKeyCount(mgr) = 0
    THEN [key |-> 0, manager |-> mgr]
    ELSE [key |-> mgr.keys[mgr.currentIndex + 1], manager |-> mgr]
getNextKey(mgr) ==
    IF getAvailableKeyCount(mgr) = 0
    THEN [key |-> 0, manager |-> mgr]
    ELSE [key |-> mgr.keys[mgr.currentIndex + 1],
          manager |-> [mgr EXCEPT !.currentIndex = (@ + 1) % Len(mgr.keys)]]

\* ------------------------------------------------------------------ world
\* The state a runMeetingStep call reads and writes, as one record, so that
\* the synchronous stretches of the call compose as functions.
World ==
    [apiKeys |-> apiKeys, chatHistory |-> chatHistory,
     isMeetingRunning |-> isMeetingRunning, isWaitingForAI |-> isWaitingForAI,
     error |-> error, managers |-> managers, states |-> states,
     tasks |-> tasks, cooldowns |-> cooldowns, sinceLimited |-> sinceLimited]

AbortError == [name |-> "AbortError", message |-> "aborted", failingKey |-> 0]
RateLimitError(message, failingKey) ==
    [name |-> "RateLimitError", message |-> message, failingKey |-> failingKey]
PlainError(message) == [name |-> "Error", message |-> message, failingKey |-> 0]

\* runMeetingStep, the catch block (lines 234-255).  closure holds what the
\* call closed over (line 256): the key ids of apiKeys, personas.length and
\* chatHistory, the latter as generateTurn and generateSummary format it
\* into their prompts.
CatchMutant(W, e, closure) ==
    LET W1 == IF e.name = "AbortError"
              THEN [W EXCEPT !.chatHistory = FilterThinking(@)]
              ELSE IF e.name = "RateLimitError"
              THEN LET W0 == [W EXCEPT !.error = e.message]
                   IN  IF e.failingKey \in closure.apiKeys
                       THEN [W0 EXCEPT
                               !.apiKeys = SetStatus(@, e.failingKey, "rate-limited"),
                               !.cooldowns = @ \cup {[id |-> e.failingKey, left |-> Cooldown]},
                               !.sinceLimited = [k \in KeyIds |->
                                   IF k = e.failingKey /\ k \in KeyIdsOf(W.apiKeys)
                                   THEN 0 ELSE @[k]]]
                       ELSE W0
              ELSE [W EXCEPT !.error = "unexpected"]
    IN  [W1 EXCEPT !.isMeetingRunning = FALSE,
                   !.isWaitingForAI = FALSE]
CatchAbortMutant(W, e, closure) ==
    LET W1 == IF e.name = "AbortError"
              THEN [W EXCEPT !.chatHistory = FilterThinking(@), !.error = "unexpected"]
              ELSE IF e.name = "RateLimitError"
              THEN LET W0 == [W EXCEPT !.error = e.message]
                   IN  IF e.failingKey \in closure.apiKeys
                       THEN [W0 EXCEPT
                               !.apiKeys = SetStatus(@, e.failingKey, "rate-limited"),
                               !.cooldowns = @ \cup {[id |-> e.failingKey, left |-> Cooldown]},
                               !.sinceLimited = [k \in KeyIds |->
                                   IF k = e.failingKey /\ k \in KeyIdsOf(W.apiKeys)
                                   THEN 0 ELSE @[k]]]
                       ELSE W0
              ELSE [W EXCEPT !.error = "unexpected"]
    IN  [W1 EXCEPT !.chatHistory = FilterThinking(@),
                   !.isMeetingRunning = FALSE,
                   !.isWaitingForAI = FALSE]
Catch(W, e, closure) ==
    LET W1 == IF e.name = "AbortError"
              THEN [W EXCEPT !.chatHistory = FilterThinking(@)]
              ELSE IF e.name = "RateLimitError"
              THEN LET W0 == [W EXCEPT !.error = e.message]
                   IN  IF e.failingKey \in closure.apiKeys
                       THEN [W0 EXCEPT
                               !.apiKeys = SetStatus(@, e.failingKey, "rate-limited"),
                               !.cooldowns = @ \cup {[id |-> e.failingKey, left |-> Cooldown]},
                               !.sinceLimited = [k \in KeyIds |->
                                   IF k = e.failingKey /\ k \in KeyIdsOf(W.apiKeys)
                                   THEN 0 ELSE @[k]]]
                       ELSE W0
              ELSE [W EXCEPT !.error = "unexpected"]
    IN  [W1 EXCEPT !.chatHistory = FilterThinking(@),
                   !.isMeetingRunning = FALSE,
                   !.isWaitingForAI = FALSE]

\* generateContentWithRetry, the for loop from iteration keyAttempt up to
\* the next await (lines 84-101), and the code after the loop (118-123).
RECURSIVE AttemptMutant(_, _, _, _)
AttemptMutant(W, ctx, keyAttempt, totalKeys) ==
    LET g == getNextKey(W.managers[ctx.orchestrator])
        W1 == [W EXCEPT !.managers[ctx.orchestrator] = g.manager]
    IN  IF keyAttempt >= totalKeys
        THEN Catch(W1, RateLimitError("allLimited", g.key), ctx.closure)
        ELSE IF g.key = 0
        THEN AttemptMutant(W1, ctx, keyAttempt + 1, totalKeys)
        ELSE IF keyAttempt = 0 /\ aborted[ctx.signal]
        THEN Catch(W1, AbortError, ctx.closure)
        ELSE [W1 EXCEPT !.tasks = Append(@,
                [state |-> ctx.state, orchestrator |-> ctx.orchestrator,
                 signal |-> ctx.signal, pc |-> ctx.pc, persona |-> ctx.persona,
                 userIntervention |-> ctx.userIntervention,
                 closure |-> ctx.closure, keyAttempt |-> keyAttempt,
                 totalKeys |-> totalKeys, apiKey |-> g.key])]
RECURSIVE Attempt(_, _, _, _)
Attempt(W, ctx, keyAttempt, totalKeys) ==
    LET g == getNextKey(W.managers[ctx.orchestrator])
        W1 == [W EXCEPT !.managers[ctx.orchestrator] = g.manager]
    IN  IF keyAttempt >= totalKeys
        THEN Catch(W1, RateLimitError("allLimited", g.key), ctx.closure)
        ELSE IF g.key = 0
        THEN Attempt(W1, ctx, keyAttempt + 1, totalKeys)
        ELSE IF aborted[ctx.signal]
        THEN Catch(W1, AbortError, ctx.closure)
        ELSE [W1 EXCEPT !.tasks = Append(@,
                [state |-> ctx.state, orchestrator |-> ctx.orchestrator,
                 signal |-> ctx.signal, pc |-> ctx.pc, persona |-> ctx.persona,
                 userIntervention |-> ctx.userIntervention,
                 closure |-> ctx.closure, keyAttempt |-> keyAttempt,
                 totalKeys |-> totalKeys, apiKey |-> g.key])]

generateContentWithRetry(W, ctx) ==
    LET totalKeys == getAvailableKeyCount(W.managers[ctx.orchestrator])
    IN  IF totalKeys = 0
        THEN Catch(W, PlainError("noActiveKeys"), ctx.closure)
        ELSE Attempt(W, ctx, 0, totalKeys)

Ctx(state, orchestrator, pc, persona, userIntervention, closure) ==
    [state |-> state, orchestrator |-> orchestrator,
     signal |-> abortControllerRef, pc |-> pc, persona |-> persona,
     userIntervention |-> userIntervention, closure |-> closure]

\* runMeetingStep, lines 191-197: the speaker index passes the last persona
SpeakerWrapsMutant(s, n) == s.currentSpeakerIndex + 1 > n
SpeakerWrapsEarlyMutant(s, n) == s.currentSpeakerIndex + 2 >= n
SpeakerWraps(s, n) == s.currentSpeakerIndex + 1 >= n

\* line 200: every agenda item has been discussed
AgendaDoneMutant(s, nextAgendaIndex) == nextAgendaIndex > Len(s.agenda)
AgendaDone(s, nextAgendaIndex) == nextAgendaIndex >= Len(s.agenda)

\* line 210: the agenda index is about to advance
AgendaAdvancesMutant(s, nextAgendaIndex) == nextAgendaIndex >= s.currentAgendaIndex
AgendaAdvances(s, nextAgendaIndex) == nextAgendaIndex > s.currentAgendaIndex

\* runMeetingStep, lines 191-227: choose the next speaker, then either the
\* summary or the next turn, up to the await of the generation call.
Discuss(W, state, orchestrator, closure) ==
    LET s == W.states[state]
        wrap == SpeakerWraps(s, closure.personas)
        nextSpeakerIndex == IF wrap THEN 0 ELSE s.currentSpeakerIndex + 1
        nextAgendaIndex == IF wrap THEN s.currentAgendaIndex + 1
                                   ELSE s.currentAgendaIndex
    IN  IF AgendaDone(s, nextAgendaIndex)
        THEN generateContentWithRetry(
                [W EXCEPT !.chatHistory = Append(@,
                              createOrchestratorMessage(Text("complete", 0))),
                          !.isWaitingForAI = TRUE],
                Ctx(state, orchestrator, "summary", 0, 0, closure))
        ELSE LET notice == IF AgendaAdvances(s, nextAgendaIndex)
                           THEN <<createOrchestratorMessage(
                                    Text("discuss", s.agenda[nextAgendaIndex + 1]))>>
                           ELSE <<>>
                 W1 == [W EXCEPT
                          !.chatHistory = @ \o notice,
                          !.states[state].currentAgendaIndex = nextAgendaIndex,
                          !.states[state].currentSpeakerIndex = nextSpeakerIndex,
                          !.isWaitingForAI = TRUE]
             IN  IF nextSpeakerIndex >= closure.personas
                 THEN \* personas[0] of an empty list: currentPersona.id throws
                      Catch(W1, PlainError("unexpected"), closure)
                 ELSE generateContentWithRetry(
                        [W1 EXCEPT !.chatHistory =
                            Append(@, thinkingMessage(nextSpeakerIndex + 1))],
                        Ctx(state, orchestrator, "turn", nextSpeakerIndex + 1,
                            s.userIntervention, closure))

\* runMeetingStep from its entry to the first await (lines 167-227)
runMeetingStep(W) ==
    LET closure == [apiKeys |-> KeyIdsOf(W.apiKeys), personas |-> personas,
                    chatHistory |-> formatHistory(W.chatHistory)]
    IN  IF abortControllerRef # 0 /\ aborted[abortControllerRef]
        THEN [W EXCEPT !.isMeetingRunning = FALSE, !.isWaitingForAI = FALSE,
                       !.chatHistory = Append(@,
                           createOrchestratorMessage(Text("stopped", 0)))]
        ELSE IF Len(W.states[meetingStateRef].agenda) = 0
        THEN generateContentWithRetry(
                [W EXCEPT !.isWaitingForAI = TRUE],
                Ctx(meetingStateRef, orchestratorRef, "agenda", 0, 0, closure))
        ELSE Discuss(W, meetingStateRef, orchestratorRef, closure)

\* The continuation of a suspended call t when its backend call settles:
\* outcome "ok" resolves it (lines 93, 129, 162, 168, then 184-189, 204-207
\* or 228-232), "rateLimit" and "other" reject it (lines 102-115).
Resume(W, t, outcome, lines) ==
    IF outcome = "rateLimit"
    THEN Attempt(W, t, t.keyAttempt + 1, t.totalKeys)
    ELSE IF outcome = "other"
    THEN Catch(W, RateLimitError("invalid", t.apiKey), t.closure)
    ELSE IF t.pc = "agenda"
    THEN Discuss([W EXCEPT
                    !.states[t.state].agenda = [i \in 1..lines |-> i],
                    !.states[t.state].currentAgendaIndex = 0,
                    !.states[t.state].currentSpeakerIndex = -1,
                    !.chatHistory = Append(@,
                        createOrchestratorMessage(Text("agenda", lines))),
                    !.isWaitingForAI = FALSE],
                 t.state, t.orchestrator, t.closure)
    ELSE IF t.pc = "summary"
    THEN [W EXCEPT !.chatHistory = @ \o
                      <<createOrchestratorMessage(Text("summary", t.apiKey)),
                        createOrchestratorMessage(Text("concluded", 0))>>,
                   !.isMeetingRunning = FALSE,
                   !.isWaitingForAI = FALSE]
    ELSE [W EXCEPT !.states[t.state].userIntervention = 0,
                   !.chatHistory =
                       (IF Len(@) = 0 THEN <<>> ELSE DropLast(@))
                       \o <<finalMessage(t.persona, Text("reply", t.apiKey))>>,
                   !.isWaitingForAI = FALSE]

\* ---------------------------------------------------------------- effects
\* The tick-scheduling effect (lines 258-266): whenever chatHistory,
\* isMeetingRunning, isWaitingForAI or runMeetingStep changes, the pending
\* timer is cleared and a new one is set if the condition holds.
TickConditionMutant(chat, running, waiting) ==
    running /\ ~waiting /\ (Len(chat) = 0 \/ Last(chat).isOrchestrator)
TickCondition(chat, running, waiting) ==
    running /\ ~waiting /\ (Len(chat) = 0 \/ ~Last(chat).isThinking)

Effect(chat, running, waiting) ==
    IF TickCondition(chat, running, waiting) THEN TurnDelay ELSE NoTimer

\* Objects no ref and no suspended call points to are unreachable.
Live(ref, ts) ==
    {ref} \cup {ts[i].state : i \in 1..Len(ts)}
          \cup {ts[i].orchestrator : i \in 1..Len(ts)}
          \cup {ts[i].signal : i \in 1..Len(ts)}

Sweep(heap, live, empty) == [o \in ObjIds |-> IF o \in live THEN heap[o] ELSE empty]

\* Writes the world a runMeetingStep stretch produced back to the variables.
Commit(W) ==
    LET live == Live(meetingStateRef, W.tasks)
    IN  /\ apiKeys' = W.apiKeys
        /\ chatHistory' = W.chatHistory
        /\ isMeetingRunning' = W.isMeetingRunning
        /\ isWaitingForAI' = W.isWaitingForAI
        /\ error' = W.error
        /\ tasks' = W.tasks
        /\ cooldowns' = W.cooldowns
        /\ sinceLimited' = W.sinceLimited
        /\ managers' = Sweep(W.managers, live, EmptyManager)
        /\ states' = Sweep(W.states, live, EmptyState)
        /\ aborted' = Sweep(aborted, live, FALSE)
        /\ tickTimer' = Effect(W.chatHistory, W.isMeetingRunning, W.isWaitingForAI)
        /\ UNCHANGED <<response, personas, meetingTopic, abortControllerRef, orchestratorRef,
                       meetingStateRef, checks, meetings>>

\* ------------------------------------------------------------------- Init
\* The App after its first render and the load from localStorage: n
\* personas, k stored keys that were verified in an earlier session, and no
\* meeting; text is what the backend will answer to an agenda call.
InitApp(n, k, text) ==
    /\ personas = n
    /\ meetingTopic = <<"t">>
    /\ response = text
    /\ apiKeys = [i \in 1..k |-> [id |-> i, status |-> "active"]]
    /\ chatHistory = <<>>
    /\ isMeetingRunning = FALSE
    /\ isWaitingForAI = FALSE
    /\ error = "none"
    /\ abortControllerRef = 0
    /\ orchestratorRef = 0
    /\ meetingStateRef = 0
    /\ aborted = [o \in ObjIds |-> FALSE]
    /\ managers = [o \in ObjIds |-> EmptyManager]
    /\ states = [o \in ObjIds |-> EmptyState]
    /\ tasks = <<>>
    /\ tickTimer = NoTimer
    /\ cooldowns = {}
    /\ checks = {}
    /\ sinceLimited = [id \in KeyIds |-> Cooldown]
    /\ meetings = 0

InitWith(n, k) == InitApp(n, k, <<>>)

Init == \E n \in 1..MaxPersonas : InitWith(n, NumKeys)

\* ---------------------------------------------------------------- actions
hasActiveKey == \E i \in 1..Len(apiKeys) : apiKeys[i].status = "active"

handleStartMeetingMutant ==
    IF ~hasActiveKey
    THEN /\ error' = IF ~hasActiveKey THEN "noActiveKey" ELSE error
         /\ UNCHANGED <<response, personas, meetingTopic, apiKeys, chatHistory, isMeetingRunning,
                        isWaitingForAI, abortControllerRef, orchestratorRef,
                        meetingStateRef, aborted, managers, states, tasks,
                        tickTimer, cooldowns, checks, sinceLimited, meetings>>
    ELSE LET used == Live(0, tasks)
             new == CHOOSE o \in ObjIds \ used :
                        \A q \in ObjIds \ used : o <= q
             live == used \cup {new}
         IN  /\ meetings < MaxMeetings
             /\ meetings' = meetings + 1
             /\ error' = "none"
             /\ chatHistory' = <<createOrchestratorMessage(Text("begin", 0))>>
             /\ abortControllerRef' = new
             /\ orchestratorRef' = new
             /\ meetingStateRef' = new
             /\ aborted' = Sweep([aborted EXCEPT ![new] = FALSE], live, FALSE)
             /\ managers' = Sweep([managers EXCEPT ![new] = ApiKeyManager(apiKeys)],
                                  live, EmptyManager)
             /\ states' = Sweep([states EXCEPT ![new] = EmptyState], live, EmptyState)
             /\ isMeetingRunning' = TRUE
             /\ tickTimer' = Effect(chatHistory', TRUE, isWaitingForAI)
             /\ UNCHANGED <<response, personas, meetingTopic, apiKeys, isWaitingForAI, tasks, cooldowns,
                            checks, sinceLimited>>

handleStartMeeting ==
    IF isMeetingRunning \/ ~hasActiveKey
    THEN /\ error' = IF ~hasActiveKey THEN "noActiveKey" ELSE error
         /\ UNCHANGED <<response, personas, meetingTopic, apiKeys, chatHistory, isMeetingRunning,
                        isWaitingForAI, abortControllerRef, orchestratorRef,
                        meetingStateRef, aborted, managers, states, tasks,
                        tickTimer, cooldowns, checks, sinceLimited, meetings>>
    ELSE LET used == Live(0, tasks)
             new == CHOOSE o \in ObjIds \ used :
                        \A q \in ObjIds \ used : o <= q
             live == used \cup {new}
         IN  /\ meetings < MaxMeetings
             /\ meetings' = meetings + 1
             /\ error' = "none"
             /\ chatHistory' = <<createOrchestratorMessage(Text("begin", 0))>>
             /\ abortControllerRef' = new
             /\ orchestratorRef' = new
             /\ meetingStateRef' = new
             /\ aborted' = Sweep([aborted EXCEPT ![new] = FALSE], live, FALSE)
             /\ managers' = Sweep([managers EXCEPT ![new] = ApiKeyManager(apiKeys)],
                                  live, EmptyManager)
             /\ states' = Sweep([states EXCEPT ![new] = EmptyState], live, EmptyState)
             /\ isMeetingRunning' = TRUE
             /\ tickTimer' = Effect(chatHistory', TRUE, isWaitingForAI)
             /\ UNCHANGED <<response, personas, meetingTopic, apiKeys, isWaitingForAI, tasks, cooldowns,
                            checks, sinceLimited>>

handleStopMeetingMutant ==
    /\ aborted' = IF abortControllerRef # 0
                  THEN [aborted EXCEPT ![abortControllerRef] = TRUE]
                  ELSE aborted
    /\ isMeetingRunning' = FALSE
    /\ isWaitingForAI' = ~isWaitingForAI
    /\ tickTimer' = NoTimer
    /\ UNCHANGED <<response, personas, meetingTopic, apiKeys, chatHistory, error, abortControllerRef,
                   orchestratorRef, meetingStateRef, managers, states, tasks,
                   cooldowns, checks, sinceLimited, meetings>>
handleStopMeetingTimerMutant ==
    /\ aborted' = IF abortControllerRef # 0
                  THEN [aborted EXCEPT ![abortControllerRef] = TRUE]
                  ELSE aborted
    /\ isMeetingRunning' = FALSE
    /\ isWaitingForAI' = FALSE
    /\ UNCHANGED <<response, personas, meetingTopic, apiKeys, tickTimer, chatHistory, error, abortControllerRef,
                   orchestratorRef, meetingStateRef, managers, states, tasks,
                   cooldowns, checks, sinceLimited, meetings>>
handleStopMeeting ==
    /\ aborted' = IF abortControllerRef # 0
                  THEN [aborted EXCEPT ![abortControllerRef] = TRUE]
                  ELSE aborted
    /\ isMeetingRunning' = FALSE
    /\ isWaitingForAI' = FALSE
    /\ tickTimer' = NoTimer
    /\ UNCHANGED <<response, personas, meetingTopic, apiKeys, chatHistory, error, abortControllerRef,
                   orchestratorRef, meetingStateRef, managers, states, tasks,
                   cooldowns, checks, sinceLimited, meetings>>

handleResetMeetingMutant ==
    /\ aborted' = IF abortControllerRef # 0
                  THEN [aborted EXCEPT ![abortControllerRef] = TRUE]
                  ELSE aborted
    /\ isMeetingRunning' = FALSE
    /\ isWaitingForAI' = FALSE
    /\ tickTimer' = NoTimer
    /\ chatHistory' = <<>>
    /\ UNCHANGED <<response, personas, meetingTopic, apiKeys, error, abortControllerRef, orchestratorRef,
                   meetingStateRef, managers, states, tasks, cooldowns, checks,
                   sinceLimited, meetings>>
handleResetMeeting ==
    /\ aborted' = IF abortControllerRef # 0
                  THEN [aborted EXCEPT ![abortControllerRef] = TRUE]
                  ELSE aborted
    /\ isMeetingRunning' = FALSE
    /\ isWaitingForAI' = FALSE
    /\ tickTimer' = NoTimer
    /\ chatHistory' = <<>>
    /\ error' = "none"
    /\ UNCHANGED <<response, personas, meetingTopic, apiKeys, abortControllerRef, orchestratorRef,
                   meetingStateRef, managers, states, tasks, cooldowns, checks,
                   sinceLimited, meetings>>

UserMsgs(chat) == Len(SelectSeq(chat, LAMBDA m : m.isUser))

handleSendMessageMutant(text) ==
    /\ UserMsgs(chatHistory) < MaxUserMsgs
    /\ IF ~isMeetingRunning \/ isWaitingForAI
       THEN UNCHANGED vars
       ELSE /\ states' = [states EXCEPT ![meetingStateRef].userIntervention =
                              IF @ = 0 THEN text ELSE @]
            /\ chatHistory' = Append(chatHistory, userMessage(text))
            /\ tickTimer' = Effect(chatHistory', isMeetingRunning, isWaitingForAI)
            /\ UNCHANGED <<response, personas, meetingTopic, apiKeys, isMeetingRunning, isWaitingForAI,
                           error, abortControllerRef, orchestratorRef,
                           meetingStateRef, aborted, managers, tasks, cooldowns,
                           checks, sinceLimited, meetings>>
handleSendMessage(text) ==
    /\ UserMsgs(chatHistory) < MaxUserMsgs
    /\ IF ~isMeetingRunning \/ isWaitingForAI
       THEN UNCHANGED vars
       ELSE /\ states' = [states EXCEPT ![meetingStateRef].userIntervention = text]
            /\ chatHistory' = Append(chatHistory, userMessage(text))
            /\ tickTimer' = Effect(chatHistory', isMeetingRunning, isWaitingForAI)
            /\ UNCHANGED <<response, personas, meetingTopic, apiKeys, isMeetingRunning, isWaitingForAI,
                           error, abortControllerRef, orchestratorRef,
                           meetingStateRef, aborted, managers, tasks, cooldowns,
                           checks, sinceLimited, meetings>>

\* The tick timer fires and calls runMeetingStep (line 263).
TickTimerFires ==
    /\ tickTimer = 0
    /\ Len(tasks) < MaxTasks
    /\ Commit(IF ~isMeetingRunning \/ orchestratorRef = 0
              THEN World
              ELSE runMeetingStep(World))

Remove(s, i) == SubSeq(s, 1, i - 1) \o SubSeq(s, i + 1, Len(s))

\* The backend call of a suspended runMeetingStep settles.
BackendSettles(i, outcome, lines) ==
    /\ i \in 1..Len(tasks)
    /\ lines \in (IF tasks[i].pc = "agenda" /\ outcome = "ok"
                  THEN 0..MaxAgenda ELSE {0})
    /\ Commit(Resume([World EXCEPT !.tasks = Remove(tasks, i)],
                     tasks[i], outcome, lines))

\* The 60 second timer of the catch block fires (lines 244-246).
CooldownFires(c) ==
    /\ c \in cooldowns
    /\ c.left = 0
    /\ apiKeys' = SetStatus(apiKeys, c.id, "active")
    /\ cooldowns' = cooldowns \ {c}
    /\ tickTimer' = Effect(chatHistory, isMeetingRunning, isWaitingForAI)
    /\ UNCHANGED <<response, personas, meetingTopic, chatHistory, isMeetingRunning, isWaitingForAI,
                   error, abortControllerRef, orchestratorRef, meetingStateRef,
                   aborted, managers, states, tasks, checks, meetings, sinceLimited>>

\* handleCheckApiKey up to its await; the button is disabled while the
\* meeting runs or the key is being checked.
handleCheckApiKey(id) ==
    /\ ~isMeetingRunning
    /\ id \in KeyIdsOf(apiKeys)
    /\ StatusOf(apiKeys, id) # "checking"
    /\ apiKeys' = SetStatus(apiKeys, id, "checking")
    /\ checks' = checks \cup {id}
    /\ tickTimer' = Effect(chatHistory, isMeetingRunning, isWaitingForAI)
    /\ UNCHANGED <<response, personas, meetingTopic, chatHistory, isMeetingRunning, isWaitingForAI,
                   error, abortControllerRef, orchestratorRef, meetingStateRef,
                   aborted, managers, states, tasks, cooldowns, meetings, sinceLimited>>

\* checkApiKey settles: 'active' or 'invalid' (lines 341-342).
CheckSettles(id, status) ==
    /\ id \in checks
    /\ apiKeys' = SetStatus(apiKeys, id, status)
    /\ checks' = checks \ {id}
    /\ tickTimer' = Effect(chatHistory, isMeetingRunning, isWaitingForAI)
    /\ UNCHANGED <<response, personas, meetingTopic, chatHistory, isMeetingRunning, isWaitingForAI,
                   error, abortControllerRef, orchestratorRef, meetingStateRef,
                   aborted, managers, states, tasks, cooldowns, meetings, sinceLimited>>

\* handleAddApiKey and handleDeleteApiKey (lines 323-334); the Add form and
\* the Delete button are disabled while the meeting runs.
handleAddApiKey(key) ==
    /\ ~isMeetingRunning
    /\ IF key \in KeyIdsOf(apiKeys)
       THEN UNCHANGED vars
       ELSE /\ apiKeys' = Append(apiKeys, [id |-> key, status |-> "unchecked"])
            /\ tickTimer' = Effect(chatHistory, isMeetingRunning, isWaitingForAI)
            /\ UNCHANGED <<response, personas, meetingTopic, chatHistory, isMeetingRunning,
                           isWaitingForAI, error, abortControllerRef,
                           orchestratorRef, meetingStateRef, aborted, managers,
                           states, tasks, cooldowns, checks, meetings,
                           sinceLimited>>

handleDeleteApiKey(idToDelete) ==
    /\ ~isMeetingRunning
    /\ idToDelete \in KeyIdsOf(apiKeys)
    /\ apiKeys' = SelectSeq(apiKeys, LAMBDA k : k.id # idToDelete)
    /\ tickTimer' = Effect(chatHistory, isMeetingRunning, isWaitingForAI)
    /\ UNCHANGED <<response, personas, meetingTopic, chatHistory, isMeetingRunning,
                   isWaitingForAI, error, abortControllerRef, orchestratorRef,
                   meetingStateRef, aborted, managers, states, tasks,
                   cooldowns, checks, meetings, sinceLimited>>

Max(a, b) == IF a > b THEN a ELSE b
Min(a, b) == IF a < b THEN a ELSE b

\* d milliseconds pass.  A timer whose delay has passed may fire, now or
\* later: setTimeout promises only a minimum delay.
Advance(d) ==
    /\ \/ tickTimer > 0
       \/ \E c \in cooldowns : c.left > 0
       \/ \E k \in KeyIds : sinceLimited[k] < Cooldown
    /\ tickTimer' = IF tickTimer > 0 THEN Max(0, tickTimer - d) ELSE tickTimer
    /\ cooldowns' = {[c EXCEPT !.left = Max(0, @ - d)] : c \in cooldowns}
    /\ sinceLimited' = [k \in KeyIds |-> Min(Cooldown, sinceLimited[k] + d)]
    /\ UNCHANGED <<response, personas, meetingTopic, apiKeys, chatHistory, isMeetingRunning,
                   isWaitingForAI, error, abortControllerRef, orchestratorRef,
                   meetingStateRef, aborted, managers, states, tasks, checks, meetings>>

Outcomes == {"ok", "rateLimit", "other"}

\* The calls of the user interface into the App.
User(texts) ==
    \/ handleStartMeeting
    \/ handleStopMeeting
    \/ handleResetMeeting
    \/ \E text \in texts : handleSendMessage(text)

\* The generation backend: how the calls in flight settle.
Backend(outcomes, agendas) ==
    \E i \in 1..MaxTasks, outcome \in outcomes, lines \in agendas \cup {0} :
        /\ i \in 1..Len(tasks)
        /\ tasks[i].pc = "agenda" /\ outcome = "ok" => lines \in agendas
        /\ BackendSettles(i, outcome, lines)

\* The timers and the clock, which advances in steps of d milliseconds.
Timers(d) ==
    \/ TickTimerFires
    \/ \E c \in cooldowns : CooldownFires(c)
    \/ Advance(d)

\* The credential forms of the settings panel.
Credentials ==
    \/ \E id \in KeyIds : handleCheckApiKey(id)
    \/ \E id \in KeyIds, status \in {"active", "invalid"} : CheckSettles(id, status)

\* The key list of the settings panel: the Add form and the Delete buttons.
KeyList ==
    \/ \E key \in KeyIds : handleAddApiKey(key)
    \/ \E id \in KeyIds : handleDeleteApiKey(id)

\* String.prototype.trim on a sequence of characters.
RECURSIVE Trim(_)
Trim(s) ==
    IF s = <<>> THEN s
    ELSE IF Head(s) = " " THEN Trim(Tail(s))
    ELSE IF Last(s) = " " THEN Trim(DropLast(s))
    ELSE s

\* SettingsPanel: the Start button is enabled when canStartMeeting holds,
\* and is rendered in place of the Stop button while no meeting runs.
canStartMeetingMutant == Len(Trim(meetingTopic)) > 0 /\ hasActiveKey
canStartMeeting == personas > 0 /\ Len(Trim(meetingTopic)) > 0 /\ hasActiveKey

StartButton == ~isMeetingRunning /\ canStartMeeting /\ handleStartMeeting

Topics == {<<>>, <<" ">>, <<"t">>, <<" ", "t">>}

\* The topic field, the Add persona form and the Delete persona button;
\* all three are disabled while the meeting runs.
setMeetingTopic(topic) ==
    /\ ~isMeetingRunning
    /\ meetingTopic' = topic
    /\ tickTimer' = Effect(chatHistory, isMeetingRunning, isWaitingForAI)
    /\ UNCHANGED <<response, personas, apiKeys, chatHistory, isMeetingRunning,
                   isWaitingForAI, error, abortControllerRef, orchestratorRef,
                   meetingStateRef, aborted, managers, states, tasks,
                   cooldowns, checks, sinceLimited, meetings>>

SetPersonas(n) ==
    /\ ~isMeetingRunning
    /\ personas' = n
    /\ tickTimer' = Effect(chatHistory, isMeetingRunning, isWaitingForAI)
    /\ UNCHANGED <<response, meetingTopic, apiKeys, chatHistory, isMeetingRunning,
                   isWaitingForAI, error, abortControllerRef, orchestratorRef,
                   meetingStateRef, aborted, managers, states, tasks,
                   cooldowns, checks, sinceLimited, meetings>>

handleSavePersona == personas < MaxPersonas /\ SetPersonas(personas + 1)
handleDeletePersona == personas > 0 /\ SetPersonas(personas - 1)

Settings ==
    \/ \E topic \in Topics : setMeetingTopic(topic)
    \/ handleSavePersona
    \/ handleDeletePersona

\* One meeting of up to MaxPersonas personas and MaxAgenda agenda items,
\* with interjections, failures, stop and reset.
NextRun ==
    \/ meetings = 0 /\ handleStartMeeting
    \/ handleStopMeeting
    \/ handleResetMeeting
    \/ \E text \in 1..NumTexts : handleSendMessage(text)
    \/ Backend(Outcomes, 1..MaxAgenda)
    \/ Timers(Cooldown)

SpecRun == Init /\ [][NextRun]_vars

\* Meetings stopped and started again while calls are in flight.
InitRace == InitWith(1, NumKeys)

NextRace ==
    \/ /\ meetings < RaceMeetings \/ isMeetingRunning \/ ~hasActiveKey
       /\ handleStartMeeting
    \/ handleStopMeeting
    \/ handleResetMeeting
    \/ handleSendMessage(1)
    \/ Backend(Outcomes, {1})
    \/ Timers(Cooldown)

SpecRace == InitRace /\ [][NextRace]_vars

\* One meeting of one persona and one agenda item with MaxKeys active keys,
\* every backend call free to succeed or fail.
InitGateway == InitWith(1, MaxKeys)

NextGateway ==
    \/ meetings = 0 /\ handleStartMeeting
    \/ handleStopMeeting
    \/ handleResetMeeting
    \/ Backend(Outcomes, {1})
    \/ Timers(Cooldown)

SpecGateway == InitGateway /\ [][NextGateway]_vars

\* Meetings of one persona, one agenda item and one key, stopped and
\* started again while calls are in flight, on a clock of half cooldowns.
InitCooldown == InitWith(1, 1)

NextCooldown ==
    \/ handleStartMeeting
    \/ handleStopMeeting
    \/ Backend(Outcomes, {1})
    \/ Timers(Cooldown \div 2)

SpecCooldown == InitCooldown /\ [][NextCooldown]_vars

\* A meeting that runs to its end: every call succeeds at its first
\* attempt, nobody interjects or stops.
InitHappy == \E n \in 1..MaxPersonas, k \in 1..MaxKeys : InitWith(n, k)

NextHappy ==
    \/ meetings = 0 /\ handleStartMeeting
    \/ Backend({"ok"}, 1..MaxAgenda)
    \/ TickTimerFires
    \/ Advance(TurnDelay)

SpecHappy == InitHappy /\ [][NextHappy]_vars

\* The settings panel between meetings that run to their end: personas
\* added and deleted, the topic edited, keys checked, the Start button.
InitSettings == InitWith(1, 1)

NextSettings ==
    \/ StartButton
    \/ Settings
    \/ Credentials
    \/ Backend({"ok"}, {1})
    \/ TickTimerFires
    \/ Advance(TurnDelay)

SpecSettings == InitSettings /\ [][NextSettings]_vars

\* The same meeting with agendas of any length, the empty one included, where
\* the tick timer is not starved: time passes, a timer that is due fires
\* and every backend call returns.
NextLive ==
    \/ meetings = 0 /\ handleStartMeeting
    \/ Backend({"ok"}, 0..MaxAgenda)
    \/ TickTimerFires
    \/ Advance(TurnDelay)

SpecLive ==
    /\ InitHappy
    /\ [][NextLive]_vars
    /\ WF_vars(TickTimerFires)
    /\ WF_vars(Advance(TurnDelay))
    /\ WF_vars(Backend({"ok"}, 0..MaxAgenda))

\* One meeting of one persona, one agenda item and one key whose calls all
\* succeed, with interjections and stop.
NextInterject ==
    \/ meetings = 0 /\ handleStartMeeting
    \/ handleStopMeeting
    \/ \E text \in 1..NumTexts : handleSendMessage(text)
    \/ Backend({"ok"}, {1})
    \/ TickTimerFires
    \/ Advance(TurnDelay)

SpecInterject == InitSettings /\ [][NextInterject]_vars

\* Meetings of one persona and MaxAgenda agenda items whose calls all
\* succeed, stopped and started again while calls are in flight.
NextRestart ==
    \/ meetings < RaceMeetings /\ handleStartMeeting
    \/ handleStopMeeting
    \/ Backend({"ok"}, {MaxAgenda})
    \/ TickTimerFires
    \/ Advance(TurnDelay)

SpecRestart == InitSettings /\ [][NextRestart]_vars

\* One meeting of one persona and one agenda item whose calls may fail,
\* and the key list edited before and after it.
NextKeys ==
    \/ meetings = 0 /\ handleStartMeeting
    \/ Backend(Outcomes, {1})
    \/ Timers(Cooldown)
    \/ KeyList

SpecKeys == InitSettings /\ [][NextKeys]_vars

Next ==
    \/ User(1..NumTexts)
    \/ Backend(Outcomes, 1..MaxAgenda)
    \/ Timers(Cooldown)
    \/ Credentials
    \/ KeyList

Spec == Init /\ [][Next]_vars

\* ----------------------------------------------------------------- claims
\* What a transcript shows of each entry: who speaks, which kind of text,
\* and for the agenda and topic notices which agenda they name.
Shape(chat) ==
    [i \in 1..Len(chat) |->
        [personaId |-> chat[i].personaId, tag |-> chat[i].text.tag,
         arg |-> IF chat[i].text.tag \in {"agenda", "discuss"}
                 THEN chat[i].text.arg ELSE 0]]
Notice(tag, arg) == [personaId |-> OrchestratorId, tag |-> tag, arg |-> arg]
Turns(n) == [p \in 1..n |-> [personaId |-> p, tag |-> "reply", arg |-> 0]]

\* For the agenda items i..m: a topic notice if i >= first, then n turns.
RECURSIVE Items(_, _, _, _)
Items(i, m, n, first) ==
    IF i > m THEN <<>>
    ELSE (IF i >= first THEN <<Notice("discuss", i)>> ELSE <<>>)
         \o Turns(n) \o Items(i + 1, m, n, first)

Transcript(n, m, first) ==
    <<Notice("begin", 0), Notice("agenda", m)>> \o Items(1, m, n, first)
    \o <<Notice("complete", 0), Notice("summary", 0), Notice("concluded", 0)>>

Concluded == Len(chatHistory) > 0 /\ Last(chatHistory).text.tag = "concluded"
Agenda == states[meetingStateRef].agenda

\* C1 as stated: a meeting of n personas and m >= 1 agenda items that runs to
\* its end leaves the opening notice, the agenda notice, for every agenda
\* item (the first included) a topic notice and n turns, then the
\* 'discussion complete' notice, the summary and the closing notice.
C1_AsStated == Concluded => Shape(chatHistory) = Transcript(personas, Len(Agenda), 1)

\* C1 amended: the same, except that the topic notice is written only when
\* the agenda index advances: no topic notice names the first item, so
\* there are m - 1 topic notices, for the items 2..m.
C1_Transcript == Concluded => Shape(chatHistory) = Transcript(personas, Len(Agenda), 2)

C1_Witness == Concluded /\ personas = 2 /\ Len(Agenda) = 2

Pending(chat) == {i \in 1..Len(chat) : chat[i].isThinking}
Replies(chat) == {i \in 1..Len(chat) : chat[i].text.tag = "reply"}

\* A persona-turn call is in flight and its meeting has been stopped.
StoppedTurn ==
    /\ Len(tasks) = 1
    /\ tasks[1].pc = "turn"
    /\ aborted[tasks[1].signal]

\* C2 as stated: when the backend call of a persona turn settles after stop
\* was called, whether it succeeds or fails, the transcript holds no pending
\* entry afterwards, no persona turn has been committed and isMeetingRunning
\* is false.
C2_AsStated ==
    [][StoppedTurn /\ tasks' # tasks =>
          /\ Pending(chatHistory') = {}
          /\ Cardinality(Replies(chatHistory')) = Cardinality(Replies(chatHistory))
          /\ ~isMeetingRunning']_vars

\* C3 as stated: at most one generation call is outstanding at any time, even
\* when the calls of stopped meetings are not counted.
C3_AsStated ==
    Cardinality({i \in 1..Len(tasks) : ~aborted[tasks[i].signal]}) <= 1

\* C4 as stated: the transcript holds at most one pending entry, and a
\* pending entry is the last entry.
C4_AsStated ==
    /\ Cardinality(Pending(chatHistory)) <= 1
    /\ \A i \in Pending(chatHistory) : i = Len(chatHistory)

\* The credentials a suspended call has attempted before its current one:
\* the keyAttempt keys that precede apiKey in the rotation.
Pos(keys, id) == CHOOSE j \in 1..Len(keys) : keys[j] = id
Tried(t) ==
    LET keys == managers[t.orchestrator].keys
    IN  {keys[((Pos(keys, t.apiKey) - 1 - d) % Len(keys)) + 1] : d \in 1..t.keyAttempt}

\* C5 as stated: every credential whose attempt failed with a rate/quota
\* error is marked rate-limited when the call goes on to the next credential:
\* while the third attempt is in flight the first two keys are rate-limited.
C5_AsStated ==
    \A i \in 1..Len(tasks) : \A id \in Tried(tasks[i]) :
        StatusOf(apiKeys, id) = "rate-limited"

\* C6 as stated: when an attempt fails with a non-quota error the call fails
\* at once, that credential is marked invalid, and an invalid credential
\* becomes active again only when a check of it settles.
C6_AsStated ==
    [][/\ isMeetingRunning /\ Len(tasks) = 1 /\ error = "none"
          /\ error' = "invalid" =>
            /\ tasks' = <<>>
            /\ StatusOf(apiKeys', tasks[1].apiKey) = "invalid"
       /\ \A id \in KeyIds :
            StatusOf(apiKeys, id) = "invalid" /\ StatusOf(apiKeys', id) = "active"
                => id \in checks]_vars

\* C7 as stated: when every attempt of a call fails with a rate/quota error
\* the call fails after as many attempts as there were usable credentials,
\* the meeting stops with an error, and every credential that was attempted
\* is rate-limited with a cooldown pending.
C7_AsStated ==
    [][isMeetingRunning /\ Len(tasks) = 1 /\ error = "none"
          /\ error' = "allLimited" =>
          /\ tasks[1].keyAttempt + 1 = tasks[1].totalKeys
          /\ tasks' = <<>>
          /\ ~isMeetingRunning'
          /\ \A id \in Tried(tasks[1]) \cup {tasks[1].apiKey} :
                /\ StatusOf(apiKeys', id) = "rate-limited"
                /\ \E c \in cooldowns' : c.id = id]_vars

\* The key a step draws from the rotation: the key of a call that is new in
\* tasks' or has moved on to its next attempt.
Draws(id) ==
    \E i \in 1..Len(tasks') :
        /\ tasks'[i].apiKey = id
        /\ \A j \in 1..Len(tasks) : tasks[j] # tasks'[i]

\* C8 as stated: a credential does not become active again sooner than one
\* cooldown after it was last marked rate-limited, and getNextKey does not
\* return a credential that is rate-limited.
C8_AsStated ==
    [][\A id \in KeyIds :
          /\ StatusOf(apiKeys, id) # "active" /\ StatusOf(apiKeys', id) = "active"
                => sinceLimited[id] >= Cooldown
          /\ Draws(id) => StatusOf(apiKeys, id) # "rate-limited"]_vars

\* C9 as stated: getNextKey returns only a credential that is active at the
\* time of the call; one that became rate-limited after the ApiKeyManager
\* was created is skipped.
C9_AsStated ==
    [][\A id \in KeyIds : Draws(id) => StatusOf(apiKeys, id) = "active"]_vars

\* The keys of the generate calls of the current meeting that can be read
\* off the state, in call order: those that served the persona turns and the
\* summary of the transcript, then the key of the call in flight.
IsAnswer(m) == m.text.tag \in {"reply", "summary"}
Calls ==
    LET done == SelectSeq(chatHistory, IsAnswer)
    IN  [i \in 1..Len(done) |-> done[i].text.arg]
        \o [i \in 1..Len(tasks) |-> tasks[i].apiKey]
Count(s, a, b, id) == Cardinality({i \in a..b : s[i] = id})

\* C10: in a meeting whose calls all succeed at their first attempt, over any
\* k consecutive calls each of the c keys of the rotation is drawn
\* floor(k/c) or ceil(k/c) times.
C10_Fair ==
    orchestratorRef \in ObjIds =>
        LET keys == managers[orchestratorRef].keys
            c == Len(keys)
        IN  \A a, b \in 1..Len(Calls) :
                a <= b =>
                    \A j \in 1..c :
                        Count(Calls, a, b, keys[j])
                            \in {(b - a + 1) \div c, (b - a + c) \div c}

\* Five consecutive calls over three keys: two keys drawn twice, one once.
C10_Witness ==
    /\ orchestratorRef \in ObjIds
    /\ Len(managers[orchestratorRef].keys) = 3
    /\ Len(Calls) = 5
    /\ {Count(Calls, 1, 5, id) : id \in 1..3} = {1, 2}

\* The persona-turn calls in flight, and the calls of tasks' that a step has
\* started: they are at their first attempt and were not in tasks.
TurnCalls(ts) == {i \in 1..Len(ts) : ts[i].pc = "turn"}
Started(i) ==
    /\ tasks'[i].keyAttempt = 0
    /\ \A j \in 1..Len(tasks) : tasks[j] # tasks'[i]
\* The interjections among the lines of a formatted history.
Interjections(h) == {j \in 1..Len(h) : h[j].speaker = UserId}

\* The backend call of the persona turn tasks[i] succeeds in this step
\* (runMeetingStep lines 228-232).
SettlesOk(i) ==
    /\ tasks' = Remove(tasks, i)
    /\ chatHistory' = (IF Len(chatHistory) = 0 THEN <<>> ELSE DropLast(chatHistory))
                      \o <<finalMessage(tasks[i].persona, Text("reply", tasks[i].apiKey))>>
    /\ error' = error
    /\ isMeetingRunning' = isMeetingRunning

\* A started persona-turn call is passed the interjection held when it
\* starts, and the interjection is cleared when the call succeeds.
Consumes ==
    /\ \A i \in TurnCalls(tasks') :
            Started(i) =>
                tasks'[i].userIntervention
                    = states[tasks'[i].state].userIntervention
    /\ \A i \in TurnCalls(tasks) :
            SettlesOk(i) => states'[tasks[i].state].userIntervention = 0

\* C11 as stated: a persona-turn call is passed the interjection held when it
\* starts, the interjection is cleared when the call succeeds, and the call
\* is passed no other interjection: none that an earlier turn was passed and
\* none that a later one overwrote.
C11_AsStated ==
    [][/\ Consumes
       /\ \A i \in TurnCalls(tasks') :
            \A j \in Interjections(tasks'[i].closure.chatHistory) :
                tasks'[i].closure.chatHistory[j].text.arg = tasks'[i].userIntervention]_vars

\* C12: while the persona list is empty, the topic is blank or no key is
\* active, no meeting starts: isMeetingRunning stays false, no tick is
\* scheduled, no opening notice is written and no new meeting state, abort
\* controller or orchestrator is installed.
C12_Rejects ==
    [][~isMeetingRunning
         /\ (personas = 0 \/ Len(Trim(meetingTopic)) = 0 \/ ~hasActiveKey) =>
            /\ ~isMeetingRunning'
            /\ tickTimer' = NoTimer
            /\ meetings' = meetings
            /\ chatHistory' # chatHistory =>
                    chatHistory' # <<createOrchestratorMessage(Text("begin", 0))>>
            /\ UNCHANGED <<meetingStateRef, abortControllerRef,
                           orchestratorRef>>]_vars

\* No meeting runs, the last persona has been deleted, the topic is
\* whitespace and the only key has been found invalid.
C12_Witness ==
    /\ ~isMeetingRunning
    /\ personas = 0
    /\ meetingTopic = <<" ">>
    /\ ~hasActiveKey
    /\ meetings > 0

\* The generation call of tasks[i] fails in this step with an error other
\* than AbortError: its attempt is rejected with a non-quota error, or with
\* a quota error when no attempt is left.
FailsAt(i) ==
    \E outcome \in {"rateLimit", "other"} :
        /\ outcome = "rateLimit" => tasks[i].keyAttempt + 1 >= tasks[i].totalKeys
        /\ LET W == Resume([World EXCEPT !.tasks = Remove(tasks, i)],
                           tasks[i], outcome, 0)
           IN  /\ tasks' = W.tasks
               /\ chatHistory' = W.chatHistory
               /\ apiKeys' = W.apiKeys
               /\ error' = W.error
               /\ cooldowns' = W.cooldowns

\* C13: when a generation call fails with an error other than AbortError,
\* afterwards isMeetingRunning is false, error holds a message, the
\* transcript holds no pending entry and no tick is scheduled; and no tick
\* is ever scheduled while isMeetingRunning is false.
C13_Fails ==
    [][/\ (\E i \in 1..Len(tasks) : FailsAt(i)) =>
            /\ ~isMeetingRunning'
            /\ ~isWaitingForAI'
            /\ error' \in {"invalid", "allLimited", "unexpected"}
            /\ Pending(chatHistory') = {}
            /\ tickTimer' = NoTimer
       /\ ~isMeetingRunning' => tickTimer' = NoTimer]_vars

\* A persona turn has failed on every key after an earlier turn was
\* committed: the meeting has stopped with the error shown.
C13_Witness ==
    /\ error = "allLimited"
    /\ ~isMeetingRunning
    /\ tasks = <<>>
    /\ Replies(chatHistory) # {}
    /\ Pending(chatHistory) = {}
    /\ \E c \in cooldowns : c.left = Cooldown

\* The backend call of tasks[i] may settle so that its generation call ends
\* with AbortError: the signal is found aborted when the next attempt is
\* about to start, after a quota error with attempts left, or when the
\* agenda call has succeeded and runMeetingStep goes on to its next call.
Aborts(i, outcome, lines) ==
    \/ /\ outcome = "rateLimit"
       /\ lines = 0
       /\ tasks[i].keyAttempt + 1 < tasks[i].totalKeys
       /\ aborted[tasks[i].signal]
    \/ /\ outcome = "ok"
       /\ tasks[i].pc = "agenda"
       /\ abortControllerRef # 0
       /\ aborted[abortControllerRef]

\* C14: when a generation call ends with AbortError, error is left as it was,
\* no key changes its status, no cooldown is armed, and afterwards the
\* transcript holds no pending entry and the meeting is not running.
C14_Cancelled ==
    \A i \in 1..Len(tasks), outcome \in Outcomes, lines \in 0..MaxAgenda :
        Aborts(i, outcome, lines) =>
            LET W == Resume([World EXCEPT !.tasks = Remove(tasks, i)],
                            tasks[i], outcome, lines)
            IN  /\ W.tasks = Remove(tasks, i)
                /\ W.error = error
                /\ W.apiKeys = apiKeys
                /\ W.cooldowns = cooldowns
                /\ Pending(W.chatHistory) = {}
                /\ ~W.isMeetingRunning
                /\ ~W.isWaitingForAI

\* The meeting was stopped during its agenda call, the call succeeded and
\* the persona turn was cancelled before its first attempt: the agenda was
\* committed, no error is shown and no entry is pending.
C14_Witness ==
    /\ tasks = <<>>
    /\ ~isMeetingRunning
    /\ error = "none"
    /\ abortControllerRef # 0 /\ aborted[abortControllerRef]
    /\ Len(chatHistory) > 0 /\ Last(chatHistory).text.tag = "agenda"
    /\ states[meetingStateRef].currentSpeakerIndex = 0

\* C15 as stated: a handleStartMeeting call that starts a meeting leaves a
\* fresh meeting state, a fresh abort controller that is not aborted, no
\* error, the opening notice as the whole transcript, isMeetingRunning true
\* and the first tick scheduled.
C15_AsStated ==
    [][meetings' = meetings + 1 =>
            /\ states'[meetingStateRef'] = EmptyState
            /\ abortControllerRef' \notin Live(0, tasks)
            /\ ~aborted'[abortControllerRef']
            /\ error' = "none"
            /\ chatHistory' = <<createOrchestratorMessage(Text("begin", 0))>>
            /\ isMeetingRunning'
            /\ tickTimer' = TurnDelay]_vars

\* handleStopMeeting followed by setChatHistory([]), as one step.
StopThenClear ==
    /\ aborted' = IF abortControllerRef # 0
                  THEN [aborted EXCEPT ![abortControllerRef] = TRUE]
                  ELSE aborted
    /\ ~isMeetingRunning'
    /\ ~isWaitingForAI'
    /\ tickTimer' = NoTimer
    /\ chatHistory' = <<>>
    /\ UNCHANGED <<response, personas, meetingTopic, apiKeys, abortControllerRef,
                   orchestratorRef, meetingStateRef, managers, states, tasks,
                   cooldowns, checks, sinceLimited, meetings>>

\* C16 as stated: handleResetMeeting does what handleStopMeeting followed by
\* clearing the transcript does, and nothing else.
C16_AsStated == [][handleResetMeeting => StopThenClear /\ error' = error]_vars

\* C16 amended: handleResetMeeting does what handleStopMeeting followed by
\* clearing the transcript and the error does: afterwards the abort
\* controller is aborted, isMeetingRunning and isWaitingForAI are false, no
\* tick is scheduled, the transcript is empty and no error is shown.
C16_Reset == [][handleResetMeeting => StopThenClear /\ error' = "none"]_vars

\* Reset was pressed after the meeting had failed: the failing key is still
\* cooling down, the error and the transcript are gone.
C16_Witness ==
    /\ meetings = 1
    /\ chatHistory = <<>>
    /\ error = "none"
    /\ ~isMeetingRunning
    /\ aborted[abortControllerRef]
    /\ tasks = <<>>
    /\ \E c \in cooldowns : c.left > 0

\* What every handleStopMeeting call leaves behind.
Stopped ==
    /\ abortControllerRef # 0 => aborted[abortControllerRef]
    /\ ~isMeetingRunning
    /\ ~isWaitingForAI
    /\ tickTimer = NoTimer

\* C17: handleStopMeeting called in a state that handleStopMeeting has left
\* changes nothing.
C17_StopTwice == [][Stopped /\ handleStopMeeting => UNCHANGED vars]_vars

\* The meeting was stopped while its persona turn was in flight.
C17_Witness ==
    /\ Stopped
    /\ abortControllerRef # 0
    /\ error = "none"
    /\ Len(tasks) = 1 /\ tasks[1].pc = "turn"
    /\ Pending(chatHistory) # {}

\* The meeting has been stopped or reset and none has been started since.
Halted ==
    /\ abortControllerRef # 0
    /\ aborted[abortControllerRef]
    /\ ~isMeetingRunning

\* C18: from a stop until the next start the meeting does not resume: no
\* tick is pending, so none runs, isMeetingRunning stays false and no
\* generation call is started.
C18_NoTick ==
    [][Halted /\ meetings' = meetings =>
            /\ Halted'
            /\ tickTimer' = NoTimer
            /\ ~isWaitingForAI'
            /\ \A i \in 1..Len(tasks') : ~Started(i)]_vars

\* The meeting was stopped during the delay after its first persona turn:
\* nothing is in flight, nothing is pending and no tick is scheduled.
C18_Witness ==
    /\ Halted
    /\ tickTimer = NoTimer
    /\ tasks = <<>>
    /\ error = "none"
    /\ Len(chatHistory) > 0 /\ Last(chatHistory).text.tag = "reply"
    /\ states[meetingStateRef].currentSpeakerIndex = 0

\* The meeting has ended by itself: with the closing notice, or with the
\* error of a failed generation call.
Terminal ==
    /\ ~isMeetingRunning
    /\ Concluded \/ error \in {"invalid", "allLimited", "unexpected"}

\* C19 as stated: once the meeting has concluded or failed, until the next
\* start no tick is scheduled and no generation call is started.
C19_AsStated ==
    [][Terminal /\ meetings' = meetings =>
            /\ tickTimer' = NoTimer
            /\ \A i \in 1..Len(tasks') : ~Started(i)]_vars

RECURSIVE IsSubseq(_, _)
IsSubseq(a, b) ==
    IF a = <<>> THEN TRUE
    ELSE IF b = <<>> THEN FALSE
    ELSE IF Head(a) = Head(b) THEN IsSubseq(Tail(a), Tail(b))
    ELSE IsSubseq(a, Tail(b))

IsPrefix(a, b) == Len(a) <= Len(b) /\ SubSeq(b, 1, Len(a)) = a

\* The pending entry at the tail becomes the final entry of the same persona.
ReplacesTail(chat, next) ==
    /\ Len(chat) > 0 /\ Len(next) = Len(chat)
    /\ Last(chat).isThinking
    /\ DropLast(next) = DropLast(chat)
    /\ ~Last(next).isThinking
    /\ Last(next).personaId = Last(chat).personaId

\* C20 as stated: in a step of a running meeting, reset apart, the entries that are not
\* pending stay in the transcript, in their order and unmodified, and a
\* change that is not an append replaces the pending entry at the tail by
\* its final text (or, when the step ends the run, removes it).
C20_AsStated ==
    [][(/\ isMeetingRunning /\ meetings' = meetings
        /\ ~handleResetMeeting
        /\ chatHistory' # chatHistory) =>
            /\ IsSubseq(FilterThinking(chatHistory), chatHistory')
            /\ \/ IsPrefix(chatHistory, chatHistory')
               \/ ReplacesTail(chatHistory, chatHistory')
               \/ ~isMeetingRunning' /\ chatHistory' = FilterThinking(chatHistory)]_vars

\* Every persona has spoken once on every agenda item.
Discussed ==
    \A p \in 1..personas :
        Cardinality({i \in Replies(chatHistory) : chatHistory[i].personaId = p})
            = Len(Agenda)

\* C21: when the tick timer is not starved, every generation call succeeds
\* and stop is never called, a started meeting reaches Concluded: the
\* closing notice is the last entry, isMeetingRunning is false and every
\* persona has spoken on every agenda item.
C21_Concludes ==
    isMeetingRunning ~> (Concluded /\ ~isMeetingRunning /\ Discussed)

\* A meeting of MaxPersonas personas over MaxAgenda items has concluded.
C21_Witness ==
    /\ Concluded /\ ~isMeetingRunning
    /\ Cardinality(Replies(chatHistory)) = MaxPersonas * MaxAgenda

\* C22: handleSendMessage called while no meeting runs or a generation call
\* is awaited leaves the transcript and the held interjection as they were;
\* called otherwise it appends one user entry with the submitted text and
\* holds that text as the interjection.  No other step adds a user entry.
C22_Interjects ==
    [][/\ \A text \in 1..NumTexts :
            handleSendMessage(text) =>
                IF isMeetingRunning /\ ~isWaitingForAI
                THEN /\ chatHistory' = Append(chatHistory, userMessage(text))
                     /\ states'[meetingStateRef].userIntervention = text
                ELSE UNCHANGED <<chatHistory, states>>
       /\ UserMsgs(chatHistory') > UserMsgs(chatHistory) =>
            /\ isMeetingRunning /\ ~isWaitingForAI
            /\ \E text \in 1..NumTexts :
                    /\ chatHistory' = Append(chatHistory, userMessage(text))
                    /\ states'[meetingStateRef].userIntervention = text]_vars

\* Two interjections were accepted during one delay between turns: both
\* are in the transcript and the second is the one held.
C22_Witness ==
    /\ isMeetingRunning /\ ~isWaitingForAI
    /\ Len(chatHistory) > 1
    /\ Last(chatHistory) = userMessage(2)
    /\ chatHistory[Len(chatHistory) - 1] = userMessage(1)
    /\ states[meetingStateRef].userIntervention = 2

\* C23 as stated: a generation call made while no key of apiKeys is active
\* draws no key and sends no request: no step taken in such a state starts
\* a call, and the rotation of the ApiKeyManager in use stays where it was.
C23_AsStated ==
    [][~hasActiveKey =>
            /\ \A i \in 1..Len(tasks') : ~Started(i)
            /\ orchestratorRef # 0 =>
                    managers'[orchestratorRef].currentIndex
                        = managers[orchestratorRef].currentIndex]_vars

\* The requests a step sends: the calls of tasks' that were not in tasks,
\* at their first attempt or at a later one.
Sent(i) == \A j \in 1..Len(tasks) : tasks[j] # tasks'[i]

\* C24: the signal is tested before every attempt: no request is sent, at
\* the first attempt or at a later one, on a signal that is aborted, and a
\* call whose attempt fails on quota after its signal was aborted is not in
\* flight afterwards and sets no error.
C24_ChecksEach ==
    [][/\ \A i \in 1..Len(tasks') : Sent(i) => ~aborted[tasks'[i].signal]
       /\ \A i \in 1..Len(tasks) :
            aborted[tasks[i].signal]
                /\ tasks[i].keyAttempt + 1 < tasks[i].totalKeys =>
                    LET W == Resume([World EXCEPT !.tasks = Remove(tasks, i)],
                                    tasks[i], "rateLimit", 0)
                    IN  W.tasks = Remove(tasks, i) /\ W.error = error]_vars

\* The agenda call was cancelled when its second attempt was about to
\* start: two keys were drawn, one request was sent, no error is shown.
C24_Witness ==
    /\ tasks = <<>>
    /\ abortControllerRef # 0 /\ aborted[abortControllerRef]
    /\ error = "none"
    /\ managers[orchestratorRef].currentIndex = 2
    /\ Len(chatHistory) = 1

ActiveCount(keys) == Cardinality({i \in 1..Len(keys) : keys[i].status = "active"})

\* C25 as stated: the attempt budget of a generation call is the number of
\* keys that are active when the call starts, the call sends at most that
\* many requests, and when a request succeeds the call sends no other.
C25_AsStated ==
    [][/\ \A i \in 1..Len(tasks') :
            /\ Started(i) => tasks'[i].totalKeys = ActiveCount(apiKeys)
            /\ Sent(i) => tasks'[i].keyAttempt < tasks'[i].totalKeys
       /\ \A i \in 1..Len(tasks), lines \in 0..MaxAgenda :
            LET rest == Remove(tasks, i)
                W == Resume([World EXCEPT !.tasks = rest], tasks[i], "ok", lines)
            IN  \A j \in 1..Len(W.tasks) :
                    \/ \E k \in 1..Len(rest) : rest[k] = W.tasks[j]
                    \/ W.tasks[j].keyAttempt = 0]_vars

AgendaNotices(chat) == {i \in 1..Len(chat) : chat[i].text.tag = "agenda"}

\* The step starts the call tasks'[i] of a Discussing tick, a persona turn
\* or the summary, from the indices the tick found: those of the meeting
\* state, or 0 and -1 when the agenda was built in the same step.
Advances(i) ==
    LET c == tasks'[i]
        n == c.closure.personas
        built == Cardinality(AgendaNotices(chatHistory'))
                    > Cardinality(AgendaNotices(chatHistory))
        speaker == IF built THEN -1 ELSE states[c.state].currentSpeakerIndex
        agenda == IF built THEN 0 ELSE states[c.state].currentAgendaIndex
        wrap == speaker + 1 >= n
        nextSpeakerIndex == IF wrap THEN 0 ELSE speaker + 1
        nextAgendaIndex == IF wrap THEN agenda + 1 ELSE agenda
        s == states'[c.state]
    IN  /\ c.pc = "summary" <=> nextAgendaIndex >= Len(s.agenda)
        /\ c.pc = "turn" =>
              /\ s.currentSpeakerIndex = nextSpeakerIndex
              /\ s.currentAgendaIndex = nextAgendaIndex
              /\ c.persona = nextSpeakerIndex + 1
              /\ 0 <= s.currentSpeakerIndex /\ s.currentSpeakerIndex < n
              /\ 0 <= s.currentAgendaIndex /\ s.currentAgendaIndex < Len(s.agenda)

\* C26 as stated: every Discussing tick advances the speaker index by one,
\* wraps it to 0 and advances the agenda index at personas.length, goes to
\* the summary exactly when the advanced agenda index reaches the agenda
\* length, generates persona turns only with both indices in range, and
\* the agenda index of a meeting never decreases.
C26_AsStated ==
    [][/\ \A i \in 1..Len(tasks') :
            Started(i) /\ tasks'[i].pc \in {"turn", "summary"} => Advances(i)
       /\ meetings > 0 /\ meetings' = meetings =>
            states'[meetingStateRef].currentAgendaIndex
                >= states[meetingStateRef].currentAgendaIndex]_vars

AgendaCalls(o) == {i \in 1..Len(tasks) : tasks[i].pc = "agenda" /\ tasks[i].state = o}

\* C27 as stated: a meeting has at most one generateAgenda call, made while
\* its agenda is empty.  When the call succeeds the agenda is the list
\* returned, one agenda notice is appended and the discussion starts from
\* agenda index 0 and speaker index -1, that is with the first persona on
\* the first item; when it fails the meeting stops with an error (with
\* none if it was cancelled), the agenda is still empty and no agenda
\* notice is appended.
C27_AsStated ==
    /\ \A o \in ObjIds : Cardinality(AgendaCalls(o)) <= 1
    /\ \A i \in 1..Len(tasks) :
         tasks[i].pc = "agenda" =>
            LET t == tasks[i]
                W0 == [World EXCEPT !.tasks = Remove(tasks, i)]
                notices(W) == Cardinality(AgendaNotices(W.chatHistory))
            IN  /\ states[t.state].agenda = <<>>
                /\ \A lines \in 0..MaxAgenda :
                     LET W == Resume(W0, t, "ok", lines)
                         s == W.states[t.state]
                     IN  /\ s.agenda = [k \in 1..lines |-> k]
                         /\ notices(W) = notices(W0) + 1
                         /\ s.currentAgendaIndex = 0
                         /\ s.currentSpeakerIndex \in {-1, 0}
                         /\ \A j \in TurnCalls(W.tasks) :
                                \/ \E k \in 1..Len(W0.tasks) :
                                        W0.tasks[k] = W.tasks[j]
                                \/ W.tasks[j].persona = 1
                /\ \A outcome \in {"rateLimit", "other"} :
                     LET W == Resume(W0, t, outcome, 0)
                     IN  \/ \E j \in 1..Len(W.tasks) :
                                W.tasks[j].keyAttempt = t.keyAttempt + 1
                         \/ /\ ~W.isMeetingRunning
                            /\ W.error # "none" \/ aborted[t.signal]
                            /\ W.states[t.state].agenda = <<>>
                            /\ notices(W) = notices(W0)

CompleteNotices(chat) == {i \in 1..Len(chat) : chat[i].text.tag = "complete"}
SummaryCalls(o) == {i \in 1..Len(tasks) : tasks[i].pc = "summary" /\ tasks[i].state = o}

\* C28 as stated: the tick that goes to the summary appends the 'discussion
\* complete' notice and starts the one summary call of the meeting; when
\* that call succeeds the summary and the closing notice are appended and
\* isMeetingRunning is false; and once the transcript of a meeting holds
\* the 'discussion complete' notice no persona turn is started for it.
C28_AsStated ==
    [][/\ \A o \in ObjIds : Cardinality(SummaryCalls(o)) <= 1
       /\ \A i \in 1..Len(tasks') :
            Started(i) /\ tasks'[i].pc = "summary" =>
                /\ Last(chatHistory') = createOrchestratorMessage(Text("complete", 0))
                /\ Cardinality(CompleteNotices(chatHistory'))
                        = Cardinality(CompleteNotices(chatHistory)) + 1
       /\ \A i \in 1..Len(tasks) :
            tasks[i].pc = "summary" =>
                LET W == Resume([World EXCEPT !.tasks = Remove(tasks, i)],
                                tasks[i], "ok", 0)
                IN  /\ W.chatHistory = chatHistory \o
                        <<createOrchestratorMessage(Text("summary", tasks[i].apiKey)),
                          createOrchestratorMessage(Text("concluded", 0))>>
                    /\ ~W.isMeetingRunning
                    /\ W.tasks = Remove(tasks, i)
       /\ \A i \in 1..Len(tasks') :
            (/\ Started(i) /\ tasks'[i].pc = "turn"
             /\ tasks'[i].state = meetingStateRef
             /\ meetings' = meetings) => CompleteNotices(chatHistory) = {}]_vars

\* C29: when an attempt of a generation call is rejected with a non-quota
\* error the call fails, and every key other than the one that was
\* attempted keeps its status: the keys that were active are still active
\* and can serve a later meeting.
C29_OthersKept ==
    \A i \in 1..Len(tasks) :
        LET t == tasks[i]
            W == Resume([World EXCEPT !.tasks = Remove(tasks, i)], t, "other", 0)
        IN  /\ W.tasks = Remove(tasks, i)
            /\ W.error = "invalid"
            /\ \A id \in KeyIds \ {t.apiKey} :
                    StatusOf(W.apiKeys, id) = StatusOf(apiKeys, id)
            /\ \A c \in W.cooldowns \ cooldowns : c.id = t.apiKey

\* The second key was rejected after the first had failed on quota: the
\* meeting has stopped, the key is out of use and the other two are active.
C29_Witness ==
    /\ error = "invalid"
    /\ ~isMeetingRunning
    /\ tasks = <<>>
    /\ StatusOf(apiKeys, 2) # "active"
    /\ ActiveCount(apiKeys) = MaxKeys - 1

\* C30 as stated: when the 60 second timer of a rate-limited key fires after
\* the key was deleted (its id is no longer in apiKeys, or is there again
\* as a newly added, unchecked entry), apiKeys is left as it was: no entry
\* is added and no status changes.
C30_AsStated ==
    [][\A c \in cooldowns :
          CooldownFires(c)
              /\ StatusOf(apiKeys, c.id) \in {"deleted", "unchecked"} =>
                    apiKeys' = apiKeys]_vars

\* --------------------------------------------------------- generateAgenda
MaxText == 6

\* The characters of a backend answer: a letter, a blank, a line break.
Chars == {"a", " ", "\n"}

Seqs(n) == UNION {[1..m -> Chars] : m \in 0..n}

Responses == Seqs(MaxText)

\* String.prototype.split('\n') on a sequence of characters.
RECURSIVE split(_)
split(s) ==
    IF \A i \in 1..Len(s) : s[i] # "\n" THEN <<s>>
    ELSE LET i == CHOOSE j \in 1..Len(s) :
                      s[j] = "\n" /\ \A k \in 1..(j - 1) : s[k] # "\n"
         IN <<SubSeq(s, 1, i - 1)>> \o split(SubSeq(s, i + 1, Len(s)))

\* generateAgenda: response.text.split('\n').filter(item =>
\* item.trim().length > 1).
generateAgendaMutant(text) ==
    SelectSeq(split(text), LAMBDA item : Len(Trim(item)) > 0)

generateAgenda(text) ==
    SelectSeq(split(text), LAMBDA item : Len(Trim(item)) > 1)

\* The agenda call of the meeting returns the answer text.
AgendaReturns ==
    \E i \in 1..MaxTasks :
        /\ i \in 1..Len(tasks)
        /\ tasks[i].pc = "agenda"
        /\ BackendSettles(i, "ok", Len(generateAgenda(response)))

\* A meeting that runs to its end on an agenda built from the text of the
\* backend's answer.
InitAgenda == \E text \in Responses : InitApp(1, 1, text)

NextAgenda ==
    \/ meetings = 0 /\ handleStartMeeting
    \/ AgendaReturns
    \/ Backend({"ok"}, {})
    \/ TickTimerFires
    \/ Advance(TurnDelay)

SpecAgenda == InitAgenda /\ [][NextAgenda]_vars

\* The positions around the lines of a text: before its first character,
\* at each line break, after its last character.
Breaks(text) ==
    {0, Len(text) + 1} \cup {i \in 1..Len(text) : text[i] = "\n"}

Break(text, n) ==
    CHOOSE b \in Breaks(text) :
        Cardinality({c \in Breaks(text) : c < b}) = n

\* The lines of a text, in their order.
LinesOf(text) ==
    [n \in 1..(Cardinality(Breaks(text)) - 1) |->
        SubSeq(text, Break(text, n - 1) + 1, Break(text, n) - 1)]

\* The length of a line without its leading and trailing blanks.
TrimmedLength(line) ==
    LET inked == {i \in 1..Len(line) : line[i] # " "}
    IN IF inked = {} THEN 0
       ELSE (CHOOSE i \in inked : \A j \in inked : j <= i)
                - (CHOOSE i \in inked : \A j \in inked : i <= j) + 1

\* C31: the agenda that generateAgenda returns is the answer split into
\* lines, keeping in their order exactly the lines whose trimmed length is
\* greater than 1, each as it was in the answer; empty and
\* single-character lines are discarded, and the meeting's agenda has one
\* item per kept line.
C31_KeptLines ==
    LET lines == LinesOf(response)
        kept == SelectSeq(lines, LAMBDA l : TrimmedLength(l) > 1)
        agenda == generateAgenda(response)
    IN /\ agenda = kept
       /\ \A n \in DOMAIN lines :
             TrimmedLength(lines[n]) <= 1 =>
                 \A m \in DOMAIN agenda : agenda[m] # lines[n]
       /\ AgendaNotices(chatHistory) # {} =>
             Len(states[meetingStateRef].agenda) = Len(kept)

\* The answer " aa", "a " in two lines: the first is kept with its blank,
\* the second is discarded, and the meeting has an agenda of one item.
C31_Witness ==
    /\ response = <<" ", "a", "a", "\n", "a", " ">>
    /\ generateAgenda(response) = << <<" ", "a", "a">> >>
    /\ AgendaNotices(chatHistory) # {}
    /\ Len(states[meetingStateRef].agenda) = 1

\* A call in flight that was started in an earlier meeting: its signal is
\* aborted and it works on a meeting state object that a later start has
\* replaced.
Stale(i) ==
    /\ i \in 1..Len(tasks)
    /\ aborted[tasks[i].signal]
    /\ tasks[i].state # meetingStateRef

\* C32 as stated: while a new meeting runs, a call that was started in a
\* meeting stopped before it has no effect on the new meeting, whether it
\* succeeds or fails: the transcript, isMeetingRunning, isWaitingForAI and
\* the new meeting's state object are what they were before it settled.
C32_AsStated ==
    \A i \in 1..Len(tasks), outcome \in Outcomes :
        (Stale(i) /\ isMeetingRunning) =>
            LET lines == IF tasks[i].pc = "agenda" /\ outcome = "ok"
                         THEN 1 ELSE 0
                W == Resume([World EXCEPT !.tasks = Remove(tasks, i)],
                            tasks[i], outcome, lines)
            IN  /\ W.chatHistory = chatHistory
                /\ W.isMeetingRunning = isMeetingRunning
                /\ W.isWaitingForAI = isWaitingForAI
                /\ W.states[meetingStateRef] = states[meetingStateRef]

\* C33 as stated: from a stop or reset until the next start nothing is
\* added to the transcript, also when a call that was in flight at the
\* stop returns successfully afterwards: the entries other than pending
\* ones are a subsequence of what they were, so no notice, persona turn
\* or summary appears, and the transcript stays empty after a reset.
C33_AsStated ==
    [][(Halted /\ meetings' = meetings) =>
          /\ Len(chatHistory') <= Len(chatHistory)
          /\ IsSubseq(FilterThinking(chatHistory'),
                      FilterThinking(chatHistory))]_vars

\* C34 as stated: a key's status becomes 'active' only when a check of the
\* key succeeds, or when the 60 second timer fires for a key that is
\* 'rate-limited' at that moment; the timer never makes an unchecked, a
\* checking or an invalid key active.
C34_AsStated ==
    [][\A id \in KeyIds :
          (/\ StatusOf(apiKeys, id) # "active"
           /\ StatusOf(apiKeys', id) = "active") =>
              \/ CheckSettles(id, "active")
              \/ /\ StatusOf(apiKeys, id) = "rate-limited"
                 /\ \E c \in cooldowns : c.id = id /\ CooldownFires(c)]_vars

\* C35 as stated: when a meeting that was not stopped has concluded, no
\* accepted interjection is left undelivered: the meeting state holds none,
\* since the persona-turn call that an interjection is passed to clears it
\* when it succeeds.
C35_AsStated ==
    (/\ meetings > 0
     /\ Concluded /\ ~isMeetingRunning
     /\ ~aborted[abortControllerRef]) =>
        states[meetingStateRef].userIntervention = 0

\* The number of persona turns written before entry i of the transcript.
TurnsBefore(i) == Cardinality({j \in Replies(chatHistory) : j < i})

\* C36: in a meeting of n personas whose calls all succeed and that is not
\* stopped, the k-th persona turn (k = 0, 1, ...) is spoken by persona
\* k mod n of the list, and the call that generates it runs on agenda item
\* k div n with speaker index k mod n; so within an agenda item no persona
\* is skipped or speaks twice.
C36_TurnOrder ==
    /\ \A i \in Replies(chatHistory) :
            chatHistory[i].personaId = (TurnsBefore(i) % personas) + 1
    /\ \A i \in Pending(chatHistory) :
            chatHistory[i].personaId = (TurnsBefore(i) % personas) + 1
    /\ \A i \in TurnCalls(tasks) :
            LET k == Cardinality(Replies(chatHistory))
                s == states[tasks[i].state]
            IN  /\ tasks[i].persona = (k % personas) + 1
                /\ s.currentSpeakerIndex = k % personas
                /\ s.currentAgendaIndex = k \div personas
                /\ s.currentAgendaIndex < Len(s.agenda)
    /\ Concluded => Cardinality(Replies(chatHistory)) = personas * Len(Agenda)

\* The last persona of the list is being asked for the last turn of the
\* meeting: turn MaxPersonas * MaxAgenda - 1 on the last agenda item.
C36_Witness ==
    /\ personas = MaxPersonas
    /\ Cardinality(Replies(chatHistory)) = MaxPersonas * MaxAgenda - 1
    /\ \E i \in TurnCalls(tasks) :
            /\ tasks[i].persona = MaxPersonas
            /\ states[tasks[i].state].currentAgendaIndex = MaxAgenda - 1

\* C37 as stated: within one generation call no key is attempted twice:
\* when the current attempt of a call fails on quota and the call goes on
\* to its next attempt, the key of that attempt is another one than the key
\* that has just failed, so a call over NumKeys keys that ends with every
\* key rate-limited has attempted each key once.
C37_AsStated ==
    \A i \in 1..Len(tasks) :
        LET t == tasks[i]
            W == Resume([World EXCEPT !.tasks = Remove(tasks, i)],
                        t, "rateLimit", 0)
        IN  (t.keyAttempt + 1 < t.totalKeys /\ Len(W.tasks) = Len(tasks)) =>
                Last(W.tasks).apiKey # t.apiKey

\* Meetings of one persona and one agenda item over NumKeys keys, run one
\* after the other, with Start pressed at any time and calls that succeed
\* or fail on quota.
NextStart ==
    \/ /\ meetings < RaceMeetings \/ isMeetingRunning
       /\ handleStartMeeting
    \/ Backend({"ok", "rateLimit"}, {1})
    \/ TickTimerFires
    \/ Advance(TurnDelay)

SpecStart == InitRace /\ [][NextStart]_vars

\* C38: handleStartMeeting called while a meeting runs changes nothing of
\* the meeting: the transcript, the meeting state object and its fields,
\* the abort controller and its signal, the orchestrator and its rotation
\* cursor, isMeetingRunning and isWaitingForAI are what they were, no call
\* is started and the tick timer is left as it is.
C38_StartNoOp ==
    [][isMeetingRunning /\ handleStartMeeting =>
          UNCHANGED <<chatHistory, meetingStateRef, states, abortControllerRef,
                      aborted, orchestratorRef, managers, isMeetingRunning,
                      isWaitingForAI, tasks, tickTimer, meetings>>]_vars

\* The second meeting runs with a persona-turn call in flight and the
\* rotation cursor moved on: the state in which Start is pressed again.
C38_Witness ==
    /\ meetings = 2
    /\ isMeetingRunning /\ isWaitingForAI
    /\ \E i \in TurnCalls(tasks) : tasks[i].state = meetingStateRef
    /\ managers[orchestratorRef].currentIndex # 0
    /\ hasActiveKey

\* C39 as stated: isWaitingForAI implies isMeetingRunning in every
\* reachable state; in particular the continuation of a call that was in
\* flight when stop was called does not set isWaitingForAI true again.
C39_AsStated == isWaitingForAI => isMeetingRunning
====
